---- MODULE Spec2Model ----
(***************************************************************************)
(* Streaming aggregation and conversation continuity of the two chat       *)
(* clients of the repository:                                              *)
(*   - the Langflow client (src/main.py): process_question iterates the    *)
(*     chunks of an OpenAI "responses" stream, main is its session loop;   *)
(*   - the OpenRAG SDK client (src/python/main.py, src/python/utils.py):   *)
(*     stream_response iterates the events of client.chat.stream,          *)
(*     run_chat_session is its session loop.                               *)
(* Text is a sequence of characters, error messages are sequences of       *)
(* words, Python values carry a type tag.                                  *)
(***************************************************************************)
EXTENDS Integers, Sequences, FiniteSets, TLC

\* Longest chunk sequence a Langflow response stream delivers.
MaxChunks == 2
\* Longest event sequence an OpenRAG SDK stream delivers.
MaxEvents == 3

VARIABLES
    variant,               \* which client runs: "langflow" or "sdk"
    pc,                    \* "input", "sent", "stream", "done", "exited"
    line,                  \* the raw line input() returned last
    request,               \* the request sent last: [input, prev]
    previous_response_id,  \* main: continuation id of the Langflow session
    chat_id,               \* run_chat_session: continuation id of the SDK session
    stream,                \* the chunks/events the backend delivers for the turn
    pos,                   \* how many of them the aggregator has consumed
    accumulated,           \* the aggregator's accumulated text
    response_id,           \* process_question: the captured id
    final_chat_id,         \* stream_response: the id it will return
    calls,                 \* arguments of live.update / on_chunk, in order
    stream_error,          \* stream_response: the exception its handlers caught
    stream_chat_id,        \* stream_response: the stream.chat_id it read, if it did
    outcome,               \* how the last turn (or read of input) ended
    raised,                \* the exception the session loop caught last
    returned,              \* the id the aggregator returned last
    markdown_text,         \* the text a rendering function is applied to
    rendered,              \* what the function made of it
    op,                    \* which function was applied: "idle", "links", "links2",
                           \* "fields", "fields2"
    phase,                 \* start-up: "boot", "imported", "config_error", "key",
                           \* "aborted", "loop"
    environ,               \* os.environ: the value of each variable, Absent if unset
    dotenv,                \* the .env file of the project root: [exists, entries]
    client,                \* the client main built: [base_url, api_key]
    key_calls,             \* how often get_or_create_api_key was called
    key_requests,          \* how many POST /keys requests were sent
    key_response,          \* the response to the last of them
    key_returned,          \* what get_or_create_api_key returned last
    startup_error,             \* what start-up raised
    key_printed,           \* the key printed for manual copy
    repr_out,              \* the last output of Config.__repr__
    u_pc,                  \* openrag_utils: "idle", "call", "stream", "final"
    u_ops,                 \* how many operations were called
    u_op,                  \* the operation called last
    u_supplied,            \* whether its caller passed a client
    u_open,                \* the clients that are open: "supplied", "own"
    u_opened,              \* how many clients the operation opened
    u_closed,              \* how many clients the operation closed
    u_used,                \* the client the backend call was made on
    u_stream,              \* chat_streaming: the stream of client.chat.stream
    u_pos,                 \* chat_streaming: how many of its events were read
    u_yielded,             \* chat_streaming: what the consumer received, in order
    u_result,              \* how the operation ended: "returned", "raised", "closed"
    u_error                \* the exception that left the operation

vars == <<variant, pc, line, request, previous_response_id, chat_id, stream, pos,
          accumulated, response_id, final_chat_id, calls, stream_error, stream_chat_id,
          outcome, raised, returned, markdown_text, rendered, op,
          phase, environ, dotenv, client, key_calls, key_requests, key_response,
          key_returned, startup_error, key_printed, repr_out,
          u_pc, u_ops, u_op, u_supplied, u_open, u_opened, u_closed, u_used, u_stream,
          u_pos, u_yielded, u_result, u_error>>

\* The state of a chat session.
chatVars == <<variant, pc, line, request, previous_response_id, chat_id, stream, pos,
              accumulated, response_id, final_chat_id, calls, stream_error,
              stream_chat_id, outcome, raised, returned>>
\* The state of the rendering functions.
textVars == <<markdown_text, rendered, op>>
\* The state of the start-up: configuration and API key.
startupVars == <<phase, environ, dotenv, client, key_calls, key_requests, key_response,
                 key_returned, startup_error, key_printed, repr_out>>
\* The state of the openrag_utils operations.
utilVars == <<u_pc, u_ops, u_op, u_supplied, u_open, u_opened, u_closed, u_used,
              u_stream, u_pos, u_yielded, u_result, u_error>>

\* The locals of one turn.
turnVars == <<stream, pos, accumulated, response_id, final_chat_id, calls, stream_error,
              stream_chat_id>>
\* What the session keeps between turns.
sessionVars == <<variant, previous_response_id, chat_id>>
\* The result of the last turn.
resultVars == <<outcome, raised, returned>>

-----------------------------------------------------------------------------
(* Python values *)

\* Python's None.
None == "<None>"
\* An attribute the object does not have.
Absent == "<absent>"
\* Continuation ids the backend hands out.
Ids == {"id1", "id2"}

\* Truthy that takes the empty string for a value.
Truthy_NotNone(x) == x \notin {None, Absent}

\* bool(x) of an id-valued expression: None and the empty string are falsy.
Truthy(x) == x \notin {None, Absent, ""}

\* getattr(obj, name, default) on a field that may be missing.
GetAttr(value, default) == IF value = Absent THEN default ELSE value

\* Tagged Python values: t is the type, v the text of a str (or of the content of
\* a mapping {"content": ...}), ct the type of a mapping's content.
PyNone == [t |-> "none", v |-> <<>>, ct |-> ""]
PyStr(s) == [t |-> "str", v |-> s, ct |-> ""]
PyInt == [t |-> "int", v |-> <<>>, ct |-> ""]
PyDict(c) == [t |-> "dict", v |-> c.v, ct |-> c.t]

\* bool(x) of a tagged value: None and "" are falsy, a number 7 is truthy.
PyTruthy(x) == CASE x.t = "none" -> FALSE
                 [] x.t = "str" -> x.v # <<>>
                 [] OTHER -> TRUE

-----------------------------------------------------------------------------
(* Text *)

Whitespace == {" "}

RECURSIVE LStrip(_)
LStrip(s) == IF s # <<>> /\ Head(s) \in Whitespace THEN LStrip(Tail(s)) ELSE s

RECURSIVE RStrip(_)
RStrip(s) == IF s # <<>> /\ s[Len(s)] \in Whitespace
             THEN RStrip(SubSeq(s, 1, Len(s) - 1)) ELSE s

\* str.strip()
Strip(s) == RStrip(LStrip(s))

\* str.lower() of one character or word.
LowerOne(c) == CASE c = "Q" -> "q"
                 [] c = "E" -> "e"
                 [] c = "X" -> "x"
                 [] c = "I" -> "i"
                 [] c = "T" -> "t"
                 [] c = "U" -> "u"
                 [] c = "H" -> "h"
                 [] c = "Peer" -> "peer"
                 [] c = "Closed" -> "closed"
                 [] c = "Incomplete" -> "incomplete"
                 [] c = "CHUNKED" -> "chunked"
                 [] OTHER -> c

\* str.lower()
Lower(s) == [i \in 1..Len(s) |-> LowerOne(s[i])]

\* needle in hay
Contains(hay, needle) ==
    \E i \in 1..(Len(hay) - Len(needle) + 1) :
        SubSeq(hay, i, i + Len(needle) - 1) = needle

-----------------------------------------------------------------------------
(* Exceptions *)

\* ExceptionClasses as if KeyboardInterrupt derived from Exception.
ExceptionClasses_WithInterrupt == {"Exception", "ConnectionError", "TimeoutError",
                                   "TypeError", "AttributeError", "EOFError",
                                   "KeyboardInterrupt"}

\* Classes derived from Exception; KeyboardInterrupt derives from BaseException.
ExceptionClasses == {"Exception", "ConnectionError", "TimeoutError", "TypeError",
                     "AttributeError", "EOFError"}

Error(cls, msg) == [cls |-> cls, msg |-> msg, cause |-> cls]
NoError == Error("none", <<>>)

\* What the transport can raise while a request is opened or a stream is read.
TransportErrors == {
    Error("Exception", <<"Peer", "Closed", "connection">>),
    Error("Exception", <<"incomplete", "chunked", "read">>),
    Error("Exception", <<"closed", "by", "peer">>),
    Error("ConnectionError", <<"connection", "refused">>),
    Error("TimeoutError", <<"timed", "out">>),
    Error("KeyboardInterrupt", <<>>) }

\* What the callback on_chunk (render_func, live.update) can raise.
CallbackErrors == { Error("Exception", <<"render", "failed">>) }

\* What input() can raise.
InputErrors == { Error("KeyboardInterrupt", <<>>), Error("EOFError", <<>>) }

-----------------------------------------------------------------------------
(* Inputs *)

\* Lines the user types.
Lines == { <<>>,
           <<" ">>,
           <<"q">>,
           <<"Q">>,
           <<"q", "u", "i", "t">>,
           <<"e", "x", "i", "t">>,
           <<" ", " ", "e", "x", "i", "t", " ", " ">>,
           <<" ", "h", "i", " ">> }

\* Chunks of the Langflow response stream: getattr(chunk, "id" / "delta" /
\* "status", None).
ChunkDeltas == { PyNone, PyStr(<<>>), PyStr(<<"a">>), PyDict(PyStr(<<"b">>)),
                 PyDict(PyInt), PyInt }
Chunks == [id : {None, ""} \cup Ids, delta : ChunkDeltas, status : {None, "completed"}]

\* Events of the SDK stream: event.type, getattr(event, 'delta' / 'chat_id' /
\* 'error', ...). An event without a type attribute is malformed.
Event(type, delta, cid, error) ==
    [type |-> type, delta |-> delta, chat_id |-> cid, error |-> error]
EventDeltas == { PyNone, PyStr(<<>>), PyStr(<<"a">>), PyStr(<<"b">>), PyInt }
DoneChatIds == {Absent, None} \cup Ids
Events ==
    { Event("content", d, Absent, <<>>) : d \in EventDeltas }
    \cup { Event("done", PyNone, c, <<>>) : c \in DoneChatIds }
    \cup { Event("error", PyNone, Absent, <<"backend", "failed">>),
           Event("sources", PyNone, Absent, <<>>),
           Event(Absent, PyNone, Absent, <<>>) }

\* stream.chat_id of the SDK's stream object when stream_response reads it
\* (hasattr(stream, 'chat_id') and stream.chat_id).
StreamChatIds == {None} \cup Ids

SeqsUpTo(S, n) == UNION { [1..k -> S] : k \in 0..n }

-----------------------------------------------------------------------------
(* The process environment and the files of the start-up *)

\* The variables the two programs read.
EnvNames == {"OPENRAG_URL", "OPENRAG_API_KEY", "EVERART_API_KEY", "ASTRA_DB_ENDPOINT",
             "ASTRA_DB_APPLICATION_TOKEN", "LANGFLOW_SERVER_URL", "LANGFLOW_API_KEY"}

\* An environment that sets nothing.
EmptyEnviron == [n \in EnvNames |-> Absent]

\* One binding of a .env file: KEY=value, the value written inside the quote.
Entry(k, v, q) == [key |-> k, value |-> v, quote |-> q]
\* A path at which no file exists.
NoFile == [exists |-> FALSE, entries |-> <<>>]
\* A file with these bindings.
File(entries) == [exists |-> TRUE, entries |-> entries]

\* No response: no request was sent.
NoResponse == [status |-> 0, api_key |-> Absent, text |-> "<none>"]
\* No client built yet.
NoClient == [base_url |-> <<>>, api_key |-> None]

\* Nothing of the start-up has run.
StartupIdle ==
    /\ phase = "boot"
    /\ environ = EmptyEnviron
    /\ dotenv = NoFile
    /\ client = NoClient
    /\ key_calls = 0
    /\ key_requests = 0
    /\ key_response = NoResponse
    /\ key_returned = None
    /\ startup_error = NoError
    /\ key_printed = None
    /\ repr_out = <<>>

\* No stream: the operation is not chat_streaming.
NoStream == [events |-> <<>>, text |-> <<>>, chat_id |-> None, sources |-> <<>>]

\* No operation of openrag_utils was called; the caller holds an open client.
UtilsIdle ==
    /\ u_pc = "idle"
    /\ u_ops = 0
    /\ u_op = "none"
    /\ u_supplied = FALSE
    /\ u_open = {"supplied"}
    /\ u_opened = 0
    /\ u_closed = 0
    /\ u_used = "none"
    /\ u_stream = NoStream
    /\ u_pos = 0
    /\ u_yielded = <<>>
    /\ u_result = "none"
    /\ u_error = NoError

-----------------------------------------------------------------------------
(* The session loops' common shape *)

\* IsExitCommand without the lower().
IsExitCommand_CaseSensitive(user_input) ==
    user_input \in { <<"e", "x", "i", "t">>, <<"q", "u", "i", "t">>, <<"q">> }

\* user_input.lower() in ['exit', 'quit', 'q']
IsExitCommand(user_input) ==
    Lower(user_input) \in { <<"e", "x", "i", "t">>, <<"q", "u", "i", "t">>, <<"q">> }

\* IsBlank that lets every line through.
IsBlank_Never(user_input) == FALSE

\* not user_input
IsBlank(user_input) == user_input = <<>>

NoRequest == [input |-> <<>>, prev |-> None]

Init ==
    /\ variant \in {"langflow", "sdk"}
    /\ pc = "input"
    /\ line = <<>>
    /\ request = NoRequest
    /\ previous_response_id = None
    /\ chat_id = None
    /\ stream = <<>>
    /\ pos = 0
    /\ accumulated = <<>>
    /\ response_id = None
    /\ final_chat_id = None
    /\ calls = <<>>
    /\ stream_error = NoError
    /\ stream_chat_id = None
    /\ outcome = "none"
    /\ raised = NoError
    /\ returned = None
    /\ markdown_text = <<>>
    /\ rendered = <<>>
    /\ op = "idle"
    /\ StartupIdle
    /\ UtilsIdle

\* ResetTurn that leaves the stream of the last turn open.
ResetTurn_KeepsStream ==
    /\ stream' = stream
    /\ pos' = pos
    /\ accumulated' = <<>>
    /\ response_id' = None
    /\ final_chat_id' = None
    /\ calls' = <<>>
    /\ stream_error' = NoError
    /\ stream_chat_id' = None

\* The turn's locals are gone once the loop starts its next iteration.
ResetTurn ==
    /\ stream' = <<>>
    /\ pos' = 0
    /\ accumulated' = <<>>
    /\ response_id' = None
    /\ final_chat_id' = None
    /\ calls' = <<>>
    /\ stream_error' = NoError
    /\ stream_chat_id' = None

-----------------------------------------------------------------------------
(* Langflow client: src/main.py *)

\* MainExcept that ends the loop at the end of the input.
MainExcept_EofEnds(e) ==
    IF e.cls \in {"KeyboardInterrupt", "EOFError"} THEN "interrupted"
    ELSE IF e.cls \in {"ConnectionError", "TimeoutError"} THEN "connection"
    ELSE "error"

\* The except clauses of main: which message the loop prints for an exception.
MainExcept(e) ==
    IF e.cls = "KeyboardInterrupt" THEN "interrupted"
    ELSE IF e.cls \in {"ConnectionError", "TimeoutError"} THEN "connection"
    ELSE "error"

\* main, one pass of the loop body up to the request process_question sends:
\* read a line, exit on a command, skip a blank line, else build the request.
MainReadInput ==
    /\ variant = "langflow"
    /\ pc = "input"
    /\ \E l \in Lines :
       /\ line' = l
       /\ LET user_input == Strip(l) IN
            IF IsExitCommand(user_input)
            THEN /\ pc' = "exited"
                 /\ outcome' = "goodbye"
                 /\ UNCHANGED request
            ELSE IF IsBlank(user_input)
            THEN UNCHANGED <<pc, request, outcome>>
            ELSE /\ pc' = "sent"
                 /\ request' = [input |-> user_input,
                                prev |-> IF Truthy(previous_response_id)
                                         THEN previous_response_id ELSE None]
                 /\ UNCHANGED outcome
    /\ UNCHANGED <<sessionVars, turnVars, raised, returned>>
    /\ UNCHANGED <<textVars, startupVars, utilVars>>

\* input() raises: the loop's except clauses handle it.
MainInputRaises ==
    /\ variant = "langflow"
    /\ pc = "input"
    /\ \E e \in InputErrors :
       /\ raised' = e
       /\ outcome' = MainExcept(e)
       /\ pc' = IF MainExcept(e) = "interrupted" THEN "exited" ELSE "input"
    /\ UNCHANGED <<sessionVars, line, request, turnVars, returned>>
    /\ UNCHANGED <<textVars, startupVars, utilVars>>

\* client.responses.create returns the stream.
CreateReturns ==
    /\ variant = "langflow"
    /\ pc = "sent"
    /\ pc' = "stream"
    /\ stream' \in SeqsUpTo(Chunks, MaxChunks)
    /\ pos' = 0
    /\ accumulated' = <<>>
    /\ response_id' = None
    /\ calls' = <<>>
    /\ outcome' = "running"
    /\ raised' = NoError
    /\ returned' = None
    /\ UNCHANGED <<sessionVars, line, request, final_chat_id, stream_error, stream_chat_id>>
    /\ UNCHANGED <<textVars, startupVars, utilVars>>

\* MainFails that starts a fresh conversation after a failure.
MainFails_ForgetsId(e) ==
    /\ raised' = e
    /\ outcome' = MainExcept(e)
    /\ pc' = IF MainExcept(e) = "interrupted" THEN "exited" ELSE "done"
    /\ returned' = None
    /\ stream' = <<>>
    /\ pos' = 0
    /\ calls' = <<>>
    /\ previous_response_id' = None
    /\ UNCHANGED <<variant, chat_id, line, request, final_chat_id, stream_error,
                   stream_chat_id>>

\* main after process_question raised e: the except clauses; the stream is gone
\* with process_question's frame.
MainFails(e) ==
    /\ raised' = e
    /\ outcome' = MainExcept(e)
    /\ pc' = IF MainExcept(e) = "interrupted" THEN "exited" ELSE "done"
    /\ returned' = None
    /\ stream' = <<>>
    /\ pos' = 0
    /\ calls' = <<>>
    /\ UNCHANGED <<sessionVars, line, request, final_chat_id, stream_error, stream_chat_id>>

\* MainReturns without the guard on the returned id.
MainReturns_Unguarded(rid) ==
    /\ returned' = rid
    /\ outcome' = "returned"
    /\ pc' = "done"
    /\ previous_response_id' = rid
    /\ UNCHANGED <<variant, chat_id, line, request, raised, final_chat_id, stream_error,
                   stream_chat_id>>

\* main after process_question returned rid:
\* if response_id: previous_response_id = response_id
MainReturns(rid) ==
    /\ returned' = rid
    /\ outcome' = "returned"
    /\ pc' = "done"
    /\ previous_response_id' = IF Truthy(rid) THEN rid ELSE previous_response_id
    /\ UNCHANGED <<variant, chat_id, line, request, raised, final_chat_id, stream_error,
                   stream_chat_id>>

\* client.responses.create raises.
CreateRaises ==
    /\ variant = "langflow"
    /\ pc = "sent"
    /\ \E e \in TransportErrors : MainFails(e)
    /\ UNCHANGED <<accumulated, response_id>>
    /\ UNCHANGED <<textVars, startupVars, utilVars>>

\* ChunkText that forgets the mapping form of a delta.
ChunkText_StringOnly(delta) ==
    IF delta.t = "str" THEN delta ELSE PyStr(<<>>)

\* text of a chunk's delta: the content of a mapping, the string itself, else "".
ChunkText(delta) ==
    IF delta.t = "dict" THEN [t |-> delta.ct, v |-> delta.v, ct |-> ""]
    ELSE IF delta.t = "str" THEN delta
    ELSE PyStr(<<>>)

\* if response_id is None: response_id = getattr(chunk, "id", None)
CaptureId(captured, chunk) == IF captured = None THEN chunk.id ELSE captured

\* The loop over the stream goes on to the next chunk.
NextChunk ==
    /\ pos' = pos + 1
    /\ UNCHANGED <<sessionVars, pc, line, request, stream, resultVars, final_chat_id,
                   stream_error, stream_chat_id>>

\* process_question, one pass of the loop over the stream.
ProcessChunk ==
    /\ variant = "langflow"
    /\ pc = "stream"
    /\ pos < Len(stream)
    /\ LET chunk == stream[pos + 1]
           text == ChunkText(chunk.delta)
       IN /\ response_id' = CaptureId(response_id, chunk)
          /\ IF chunk.delta.t = "none"
             THEN \* continue
                  /\ NextChunk
                  /\ UNCHANGED <<accumulated, calls>>
             ELSE IF PyTruthy(text) /\ text.t # "str"
             THEN \* accumulated += text raises TypeError
                  /\ MainFails(Error("TypeError", <<"can", "only", "concatenate", "str">>))
                  /\ UNCHANGED accumulated
             ELSE /\ accumulated' = IF PyTruthy(text) THEN accumulated \o text.v
                                     ELSE accumulated
                  /\ calls' = IF PyTruthy(text) THEN Append(calls, accumulated \o text.v)
                               ELSE calls
                  /\ IF chunk.status = "completed"
                     THEN \* break
                          /\ MainReturns(CaptureId(response_id, chunk))
                          /\ pos' = pos + 1
                          /\ UNCHANGED stream
                     ELSE NextChunk
    /\ UNCHANGED <<textVars, startupVars, utilVars>>

\* The stream ends: process_question returns response_id.
StreamExhausted ==
    /\ variant = "langflow"
    /\ pc = "stream"
    /\ pos = Len(stream)
    /\ MainReturns(response_id)
    /\ UNCHANGED <<stream, pos, accumulated, response_id, calls>>
    /\ UNCHANGED <<textVars, startupVars, utilVars>>

\* Reading the next chunk raises.
StreamRaises ==
    /\ variant = "langflow"
    /\ pc = "stream"
    /\ \E e \in TransportErrors : MainFails(e)
    /\ UNCHANGED <<accumulated, response_id>>
    /\ UNCHANGED <<textVars, startupVars, utilVars>>

\* The loop goes round: the turn's locals are gone.
MainNextIteration ==
    /\ variant = "langflow"
    /\ pc = "done"
    /\ pc' = "input"
    /\ ResetTurn
    /\ UNCHANGED <<sessionVars, line, request, resultVars>>
    /\ UNCHANGED <<textVars, startupVars, utilVars>>

-----------------------------------------------------------------------------
(* OpenRAG SDK client: src/python/main.py, src/python/utils.py *)

\* SessionExcept whose catch-all clause ends the loop.
SessionExcept_ErrorEndsLoop(e) ==
    IF e.cls \in {"ConnectionError", "TimeoutError"} THEN "connection"
    ELSE "interrupted"

\* The except clauses of run_chat_session.
SessionExcept(e) ==
    IF e.cls = "KeyboardInterrupt" THEN "interrupted"
    ELSE IF e.cls \in {"ConnectionError", "TimeoutError"} THEN "connection"
    ELSE "error"

\* run_chat_session, one pass of the loop body up to the call of stream_func.
RunReadInput ==
    /\ variant = "sdk"
    /\ pc = "input"
    /\ \E l \in Lines :
       /\ line' = l
       /\ LET user_input == Strip(l) IN
            IF IsExitCommand(user_input)
            THEN /\ pc' = "exited"
                 /\ outcome' = "goodbye"
                 /\ UNCHANGED request
            ELSE IF IsBlank(user_input)
            THEN UNCHANGED <<pc, request, outcome>>
            ELSE /\ pc' = "sent"
                 /\ request' = [input |-> user_input, prev |-> chat_id]
                 /\ UNCHANGED outcome
    /\ UNCHANGED <<sessionVars, turnVars, raised, returned>>
    /\ UNCHANGED <<textVars, startupVars, utilVars>>

\* console.input raises.
RunInputRaises ==
    /\ variant = "sdk"
    /\ pc = "input"
    /\ \E e \in InputErrors :
       /\ raised' = e
       /\ outcome' = SessionExcept(e)
       /\ pc' = IF SessionExcept(e) = "interrupted" THEN "exited" ELSE "input"
    /\ UNCHANGED <<sessionVars, line, request, turnVars, returned>>
    /\ UNCHANGED <<textVars, startupVars, utilVars>>

\* run_chat_session after stream_func raised e; the stream is gone with
\* stream_response's frame.
SessionFails(e) ==
    /\ raised' = e
    /\ outcome' = SessionExcept(e)
    /\ pc' = IF SessionExcept(e) = "interrupted" THEN "exited" ELSE "done"
    /\ returned' = None
    /\ stream' = <<>>
    /\ pos' = 0
    /\ calls' = <<>>
    /\ UNCHANGED <<sessionVars, line, request, response_id, final_chat_id>>

\* run_chat_session after stream_func returned (fid, accumulated):
\* chat_id, _ = await stream_func(...)
SessionReturns(fid) ==
    /\ returned' = fid
    /\ final_chat_id' = fid
    /\ outcome' = "returned"
    /\ pc' = "done"
    /\ chat_id' = fid
    /\ UNCHANGED <<variant, previous_response_id, line, request, raised, response_id>>

\* "peer closed" in error_str or "incomplete chunked" in error_str
IsPeerClosed(msg) ==
    LET error_str == Lower(msg)
    IN Contains(error_str, <<"peer", "closed">>)
       \/ Contains(error_str, <<"incomplete", "chunked">>)

\* TreatedAsSuccess that does not ask whether content was received.
TreatedAsSuccess_AnyContent(e, acc) == IsPeerClosed(e.msg)

\* The inner handler lets the error pass as the end of the stream.
TreatedAsSuccess(e, acc) == IsPeerClosed(e.msg) /\ acc # <<>>

\* The outer handler returns what was accumulated instead of raising.
ReturnsDespiteError(acc, stream_obj) == acc # <<>> /\ stream_obj

\* StreamingError that re-raises the error as it is.
StreamingError_Unwrapped(e) == e

\* raise Exception(f"Streaming error: {str(e)}") from e
StreamingError(e) ==
    [cls |-> "Exception", msg |-> <<"Streaming", "error:">> \o e.msg, cause |-> e.cause]

\* if hasattr(stream, 'chat_id') and stream.chat_id: final_chat_id = stream.chat_id
FromStreamObject(fid, obj) == IF Truthy(obj) THEN obj ELSE fid

\* After the iteration: take the stream object's chat_id when no new id was found.
AfterIteration(fid, prior, obj) ==
    IF ~Truthy(fid) \/ fid = prior THEN FromStreamObject(fid, obj) ELSE fid

\* stream_response when e is raised inside the iteration over the stream, with
\* acc accumulated and the callback invoked with cbs so far; consumed is 1 when
\* the handling of an event raised it, 0 when the read did (then nothing more of
\* the stream arrives).
StreamError(e, consumed, acc, cbs) ==
    LET arrived == IF consumed = 1 THEN stream ELSE SubSeq(stream, 1, pos) IN
    /\ accumulated' = acc
    /\ IF e.cls \notin ExceptionClasses
       THEN /\ SessionFails(e)
            /\ UNCHANGED <<stream_error, stream_chat_id>>
       ELSE /\ stream_error' = e
            /\ IF TreatedAsSuccess(e, acc)
               THEN /\ \E obj \in StreamChatIds :
                         /\ stream_chat_id' = obj
                         /\ SessionReturns(AfterIteration(FromStreamObject(final_chat_id, obj),
                                                          request.prev, obj))
                    /\ stream' = arrived
                    /\ pos' = pos + consumed
                    /\ calls' = cbs
               ELSE IF ReturnsDespiteError(acc, TRUE)
               THEN /\ \E obj \in StreamChatIds :
                         /\ stream_chat_id' = obj
                         /\ SessionReturns(FromStreamObject(final_chat_id, obj))
                    /\ stream' = arrived
                    /\ pos' = pos + consumed
                    /\ calls' = cbs
               ELSE /\ SessionFails(StreamingError(e))
                    /\ UNCHANGED stream_chat_id

\* client.chat.stream(...) is entered: the stream is open.
StreamOpens ==
    /\ variant = "sdk"
    /\ pc = "sent"
    /\ pc' = "stream"
    /\ stream' \in SeqsUpTo(Events, MaxEvents)
    /\ pos' = 0
    /\ accumulated' = <<>>
    /\ final_chat_id' = request.prev
    /\ calls' = <<>>
    /\ stream_error' = NoError
    /\ stream_chat_id' = None
    /\ outcome' = "running"
    /\ raised' = NoError
    /\ returned' = None
    /\ UNCHANGED <<sessionVars, line, request, response_id>>
    /\ UNCHANGED <<textVars, startupVars, utilVars>>

\* Entering client.chat.stream(...) raises: stream_obj is still None.
StreamOpenRaises ==
    /\ variant = "sdk"
    /\ pc = "sent"
    /\ \E e \in TransportErrors :
        IF e.cls \notin ExceptionClasses
        THEN /\ SessionFails(e)
             /\ UNCHANGED <<stream_error, stream_chat_id>>
        ELSE /\ stream_error' = e
             /\ UNCHANGED stream_chat_id
             /\ IF ReturnsDespiteError(accumulated, FALSE)
                THEN /\ SessionReturns(request.prev)
                     /\ UNCHANGED <<stream, pos, calls>>
                ELSE SessionFails(StreamingError(e))
    /\ UNCHANGED accumulated
    /\ UNCHANGED <<textVars, startupVars, utilVars>>

\* OnChunk that never calls.
OnChunk_Dropped(cbs, acc) == cbs

\* if on_chunk: on_chunk(accumulated) -- run_chat_session always passes one.
OnChunk(cbs, acc) == Append(cbs, acc)

\* The loop over the events goes on to the next event.
NextEvent ==
    /\ pos' = pos + 1
    /\ UNCHANGED <<sessionVars, pc, line, request, stream, resultVars, response_id,
                   stream_error, stream_chat_id>>

\* stream_response, one pass of the loop over the events.
StreamEvent ==
    /\ variant = "sdk"
    /\ pc = "stream"
    /\ pos < Len(stream)
    /\ LET event == stream[pos + 1] IN
        IF event.type = Absent
        THEN \* event.type raises AttributeError
             StreamError(Error("AttributeError", <<"no", "attribute", "type">>), 1,
                         accumulated, calls)
        ELSE IF event.type = "content"
        THEN IF ~PyTruthy(event.delta)
             THEN /\ NextEvent
                  /\ UNCHANGED <<accumulated, final_chat_id, calls>>
             ELSE IF event.delta.t # "str"
             THEN \* accumulated += text raises TypeError
                  StreamError(Error("TypeError", <<"can", "only", "concatenate", "str">>), 1,
                              accumulated, calls)
             ELSE \* accumulated += text; on_chunk(accumulated) returns or raises
                  \/ /\ NextEvent
                     /\ accumulated' = accumulated \o event.delta.v
                     /\ calls' = OnChunk(calls, accumulated \o event.delta.v)
                     /\ UNCHANGED final_chat_id
                  \/ \E e \in CallbackErrors :
                        StreamError(e, 1, accumulated \o event.delta.v,
                                    OnChunk(calls, accumulated \o event.delta.v))
        ELSE IF event.type = "done"
        THEN /\ NextEvent
             /\ final_chat_id' = GetAttr(event.chat_id, request.prev)
             /\ UNCHANGED <<accumulated, calls>>
        ELSE IF event.type = "error"
        THEN \* raise Exception(f"Stream error: {error_msg}")
             StreamError(Error("Exception", <<"Stream", "error:">> \o event.error), 1,
                         accumulated, calls)
        ELSE /\ NextEvent
             /\ UNCHANGED <<accumulated, final_chat_id, calls>>
    /\ UNCHANGED <<textVars, startupVars, utilVars>>

\* The stream ends: the code after the iteration, then the return.
StreamEnds ==
    /\ variant = "sdk"
    /\ pc = "stream"
    /\ pos = Len(stream)
    /\ \E obj \in StreamChatIds :
         /\ stream_chat_id' = IF ~Truthy(final_chat_id) \/ final_chat_id = request.prev
                              THEN obj ELSE None
         /\ SessionReturns(AfterIteration(final_chat_id, request.prev, obj))
    /\ UNCHANGED <<stream, pos, stream_error, accumulated, calls>>
    /\ UNCHANGED <<textVars, startupVars, utilVars>>

\* Reading the next event raises.
StreamReadRaises ==
    /\ variant = "sdk"
    /\ pc = "stream"
    /\ \E e \in TransportErrors : StreamError(e, 0, accumulated, calls)
    /\ UNCHANGED <<textVars, startupVars, utilVars>>

\* The loop goes round: the turn's locals are gone.
RunNextIteration ==
    /\ variant = "sdk"
    /\ pc = "done"
    /\ pc' = "input"
    /\ ResetTurn
    /\ UNCHANGED <<sessionVars, line, request, resultVars>>
    /\ UNCHANGED <<textVars, startupVars, utilVars>>

Next ==
    \/ MainReadInput
    \/ MainInputRaises
    \/ CreateReturns
    \/ CreateRaises
    \/ ProcessChunk
    \/ StreamExhausted
    \/ StreamRaises
    \/ MainNextIteration
    \/ RunReadInput
    \/ RunInputRaises
    \/ StreamOpens
    \/ StreamOpenRaises
    \/ StreamEvent
    \/ StreamEnds
    \/ StreamReadRaises
    \/ RunNextIteration

Spec == Init /\ [][Next]_vars

-----------------------------------------------------------------------------
(* The rendering functions: src/utils.py, src/python/utils.py.  A text is a  *)
(* sequence of characters; a word the patterns treat as a unit (a field      *)
(* name, "link=", "json") is written as one element.                         *)

\* Most pieces a text is put together from.
MaxPieces == 4

\* The first index from i on at which s holds c; 0 when there is none.
IndexFrom(s, c, i) ==
    IF \E j \in i..Len(s) : s[j] = c
    THEN CHOOSE j \in i..Len(s) : s[j] = c /\ \A k \in i..(j - 1) : s[k] # c
    ELSE 0

NoMatch == [ok |-> FALSE, g1 |-> <<>>, g2 |-> <<>>, end |-> 0]

\* link_pattern = r'\[([^\]]+)\]\(([^\)]+)\)' tried at position i: the text
\* runs to the first "]", which "(" must follow; the url runs to the first ")".
link_pattern(s, i) ==
    LET k == IndexFrom(s, "]", i + 1)
        m == IF k = 0 THEN 0 ELSE IndexFrom(s, ")", k + 2)
    IN IF /\ s[i] = "["
          /\ k > i + 1
          /\ k + 1 <= Len(s)
          /\ s[k + 1] = "("
          /\ m > k + 2
       THEN [ok |-> TRUE, g1 |-> SubSeq(s, i + 1, k - 1),
             g2 |-> SubSeq(s, k + 2, m - 1), end |-> m]
       ELSE NoMatch

\* replace_link that pairs the markup the wrong way round.
replace_link_Swapped(match) ==
    <<"[", "link=">> \o match.g1 \o <<"]">> \o match.g2 \o <<"[", "/link", "]">>

\* f'[link={url}]{text}[/link]'
replace_link(match) ==
    <<"[", "link=">> \o match.g2 \o <<"]">> \o match.g1 \o <<"[", "/link", "]">>

\* re.sub(link_pattern, replace_link, s) from position i on: leftmost matches,
\* one after the other.
RECURSIVE SubLinks(_, _)
SubLinks(s, i) ==
    IF i > Len(s) THEN <<>>
    ELSE IF link_pattern(s, i).ok
    THEN replace_link(link_pattern(s, i)) \o SubLinks(s, link_pattern(s, i).end + 1)
    ELSE <<s[i]>> \o SubLinks(s, i + 1)

make_links_clickable(s) == SubLinks(s, 1)

\* \s of the field pattern.
RegexSpace == {" ", "\n"}

\* The names field_pattern asks for, between quotes; src/python/utils.py adds
\* input_value.
IsFieldName(name) ==
    \/ name \in { <<"search_", "query">>, <<"search_", "mode">>, <<"query">> }
    \/ variant = "sdk" /\ name = <<"input_value">>
    \/ Len(name) >= 2 /\ name[1] = "search_"

\* The end of a match whose field name opens with the quote at o: the name runs
\* to the next quote, the object to the first "}" after it; 0 when there is none.
FieldEnd(s, o) ==
    LET c == IndexFrom(s, "\"", o + 1) IN
    IF c > 0 /\ IsFieldName(SubSeq(s, o + 1, c - 1)) THEN IndexFrom(s, "}", c + 1) ELSE 0

\* \{[^}]*"(...)"[^}]*\} with "{" at b: the greedy [^}]* takes the last quote
\* before the first "}" for which the rest matches.
ObjectEnd(s, b) ==
    LET opens == { o \in (b + 1)..Len(s) :
                     /\ s[o] = "\""
                     /\ \A j \in (b + 1)..(o - 1) : s[j] # "}"
                     /\ FieldEnd(s, o) > 0 }
    IN IF opens = {} THEN 0
       ELSE FieldEnd(s, CHOOSE o \in opens : \A o2 \in opens : o2 <= o)

\* The first index from i on that holds no \s; Len(s) + 1 when there is none.
RECURSIVE SkipSpace(_, _)
SkipSpace(s, i) ==
    IF i <= Len(s) /\ s[i] \in RegexSpace THEN SkipSpace(s, i + 1) ELSE i

\* field_pattern tried at position i: an optional ",\s*" and then the object.
field_pattern(s, i) ==
    LET b == IF s[i] = "," THEN SkipSpace(s, i + 1) ELSE i
        e == IF b <= Len(s) /\ s[b] = "{" THEN ObjectEnd(s, b) ELSE 0
    IN IF e > 0 THEN [ok |-> TRUE, g1 |-> SubSeq(s, i, e), g2 |-> <<>>, end |-> e]
       ELSE NoMatch

\* full_match.lstrip(', ')
RECURSIVE LStripCommaSpace(_)
LStripCommaSpace(s) ==
    IF s # <<>> /\ Head(s) \in {",", " "} THEN LStripCommaSpace(Tail(s)) ELSE s

\* The three backquotes that open and close a fenced code block.
Fence == "<fence>"

\* f'{fence}json\n{json_obj}\n{fence}\n\n'
replace_field(match) ==
    <<Fence, "json", "\n">> \o LStripCommaSpace(match.g1) \o <<"\n", Fence, "\n", "\n">>

\* re.sub(field_pattern, replace_field, s) from position i on.
RECURSIVE SubFields(_, _)
SubFields(s, i) ==
    IF i > Len(s) THEN <<>>
    ELSE IF field_pattern(s, i).ok
    THEN replace_field(field_pattern(s, i)) \o SubFields(s, field_pattern(s, i).end + 1)
    ELSE <<s[i]>> \o SubFields(s, i + 1)

highlight_search_fields(s) == SubFields(s, 1)

\* Pieces of texts with links, and of texts with JSON objects.
LinkPieces == { <<"[", "a", "]">>, <<"(", "u", ")">>, <<"[", "b", "]", "(", "v", ")">>,
                <<"x">>, <<"[">>, <<"(">>, <<")">> }
FieldPieces == { <<"{">>, <<"}">>, <<",", " ">>, <<"\"", "query", "\"">>,
                 <<"\"", "search_", "x", "\"">>, <<"\"", "input_value", "\"">>,
                 <<"x">> }

RECURSIVE Flatten(_)
Flatten(pieces) ==
    IF pieces = <<>> THEN <<>> ELSE Head(pieces) \o Flatten(Tail(pieces))

Texts == { Flatten(ps) : ps \in SeqsUpTo(LinkPieces, MaxPieces) }
         \cup { Flatten(ps) : ps \in SeqsUpTo(FieldPieces, MaxPieces) }

\* A text is about to be rendered by one of the clients.
InitText ==
    /\ variant \in {"langflow", "sdk"}
    /\ pc = "input"
    /\ line = <<>>
    /\ request = NoRequest
    /\ previous_response_id = None
    /\ chat_id = None
    /\ stream = <<>>
    /\ pos = 0
    /\ accumulated = <<>>
    /\ response_id = None
    /\ final_chat_id = None
    /\ calls = <<>>
    /\ stream_error = NoError
    /\ stream_chat_id = None
    /\ outcome = "none"
    /\ raised = NoError
    /\ returned = None
    /\ markdown_text \in Texts
    /\ rendered = <<>>
    /\ op = "idle"
    /\ StartupIdle
    /\ UtilsIdle

\* make_links_clickable(markdown_text)
MakeLinksClickable ==
    /\ op = "idle"
    /\ rendered' = make_links_clickable(markdown_text)
    /\ op' = "links"
    /\ UNCHANGED <<chatVars, markdown_text, startupVars, utilVars>>

\* make_links_clickable applied to its own result.
MakeLinksClickableAgain ==
    /\ op = "links"
    /\ markdown_text' = rendered
    /\ rendered' = make_links_clickable(rendered)
    /\ op' = "links2"
    /\ UNCHANGED <<chatVars, startupVars, utilVars>>

\* highlight_search_fields(text)
HighlightSearchFields ==
    /\ op = "idle"
    /\ rendered' = highlight_search_fields(markdown_text)
    /\ op' = "fields"
    /\ UNCHANGED <<chatVars, markdown_text, startupVars, utilVars>>

\* highlight_search_fields applied to its own result.
HighlightSearchFieldsAgain ==
    /\ op = "fields"
    /\ markdown_text' = rendered
    /\ rendered' = highlight_search_fields(rendered)
    /\ op' = "fields2"
    /\ UNCHANGED <<chatVars, startupVars, utilVars>>

NextText ==
    \/ MakeLinksClickable
    \/ MakeLinksClickableAgain
    \/ HighlightSearchFields
    \/ HighlightSearchFieldsAgain

SpecText == InitText /\ [][NextText]_vars

-----------------------------------------------------------------------------
(* Start-up: src/python/config.py, get_or_create_api_key and main of         *)
(* src/python/main.py; the module level and main of src/main.py.  A .env     *)
(* file is a sequence of bindings, the environment a function of the names.  *)

\* Longest .env file.
MaxEntries == 2
\* How often get_or_create_api_key is called in one process.
MaxKeyCalls == 2

\* No chat session has started.
ChatIdle ==
    /\ pc = "input"
    /\ line = <<>>
    /\ request = NoRequest
    /\ previous_response_id = None
    /\ chat_id = None
    /\ stream = <<>>
    /\ pos = 0
    /\ accumulated = <<>>
    /\ response_id = None
    /\ final_chat_id = None
    /\ calls = <<>>
    /\ stream_error = NoError
    /\ stream_chat_id = None
    /\ outcome = "none"
    /\ raised = NoError
    /\ returned = None

\* No text is being rendered.
TextIdle ==
    /\ markdown_text = <<>>
    /\ rendered = <<>>
    /\ op = "idle"

\* Bindings a .env file holds.
EntryPool == { Entry("OPENRAG_API_KEY", "kf", ""),
               Entry("OPENRAG_API_KEY", "", ""),
               Entry("OPENRAG_URL", "u2", ""),
               Entry("EVERART_API_KEY", "s2", "\""),
               Entry("LANGFLOW_SERVER_URL", "u2", "") }
\* The .env file of the project root, if there is one.
Files == {NoFile} \cup { File(es) : es \in SeqsUpTo(EntryPool, MaxEntries) }
\* What load_dotenv() finds elsewhere when the project root has no .env.
FallbackFiles == { NoFile, File(<<Entry("OPENRAG_API_KEY", "kf", "")>>) }

\* The environment the process is started with.
StartEnvirons(v) ==
    IF v = "sdk"
    THEN { [EmptyEnviron EXCEPT !["OPENRAG_URL"] = u, !["OPENRAG_API_KEY"] = k,
                                !["EVERART_API_KEY"] = e, !["ASTRA_DB_ENDPOINT"] = a,
                                !["ASTRA_DB_APPLICATION_TOKEN"] = t] :
             u \in {Absent, "", "u1"}, k \in {Absent, "", "k0"},
             e \in {Absent, "", "s1"}, a \in {Absent, "s1"}, t \in {Absent, "s1"} }
    ELSE { [EmptyEnviron EXCEPT !["LANGFLOW_SERVER_URL"] = u, !["LANGFLOW_API_KEY"] = k] :
             u \in {Absent, "", "u1"}, k \in {Absent, "", "k0"} }

\* dotenv_values: does the file bind the name, and to what (the last binding wins,
\* the quotes are not part of the value).
HasKey(file, k) == \E i \in 1..Len(file.entries) : file.entries[i].key = k
LastValue(file, k) ==
    LET last == CHOOSE i \in 1..Len(file.entries) :
                    /\ file.entries[i].key = k
                    /\ \A j \in (i+1)..Len(file.entries) : file.entries[j].key # k
    IN  file.entries[last].value

\* load_dotenv(path): a variable the environment already has is not overridden.
load_dotenv(env, file) ==
    [n \in EnvNames |-> IF env[n] = Absent /\ HasKey(file, n)
                        THEN LastValue(file, n)
                        ELSE env[n]]

\* Config.__init__: the .env of the project root, else whatever load_dotenv() finds.
Config_init(env, root, other) ==
    IF root.exists THEN load_dotenv(env, root) ELSE load_dotenv(env, other)

\* os.getenv(name, default)
getenv(env, name, default) == IF env[name] = Absent THEN default ELSE env[name]

\* The properties of Config.
DefaultUrl == "http://localhost:3000"
OPENRAG_URL(env) == getenv(env, "OPENRAG_URL", DefaultUrl)
OPENRAG_API_KEY(env) == getenv(env, "OPENRAG_API_KEY", None)
EVERART_API_KEY(env) == getenv(env, "EVERART_API_KEY", None)
ASTRA_DB_ENDPOINT(env) == getenv(env, "ASTRA_DB_ENDPOINT", None)
ASTRA_DB_APPLICATION_TOKEN(env) == getenv(env, "ASTRA_DB_APPLICATION_TOKEN", None)

\* Config.validate(require_api_key): the error it raises, NoError when it returns.
validate(env, require_api_key) ==
    IF ~Truthy(OPENRAG_URL(env))
    THEN Error("ValueError", <<"OPENRAG_URL", "must", "be", "set">>)
    ELSE IF require_api_key /\ ~Truthy(OPENRAG_API_KEY(env))
    THEN Error("ValueError", <<"OPENRAG_API_KEY", "must", "be", "set">>)
    ELSE NoError

\* Redact that shows a value that is set.
Redact_Clear(value) == IF Truthy(value) THEN value ELSE "NOT SET"

\* '***' if value else 'NOT SET'
Redact(value) == IF Truthy(value) THEN "***" ELSE "NOT SET"

\* Config.__repr__, piece by piece.
Config_repr(env) ==
    << "Config(",
       "OPENRAG_URL=", OPENRAG_URL(env),
       "OPENRAG_API_KEY=", Redact(OPENRAG_API_KEY(env)),
       "EVERART_API_KEY=", Redact(EVERART_API_KEY(env)),
       "ASTRA_DB_ENDPOINT=", Redact(ASTRA_DB_ENDPOINT(env)),
       "ASTRA_DB_APPLICATION_TOKEN=", Redact(ASTRA_DB_APPLICATION_TOKEN(env)),
       ")" >>

\* set_key that writes a file of the one binding.
set_key_Truncates(file, k, v) == File(<<Entry(k, v, "'")>>)

\* set_key(path, key, value) of python-dotenv: every binding of the key is rewritten
\* as key='value', one is appended when there is none, other lines are copied.
set_key(file, k, v) ==
    IF HasKey(file, k)
    THEN File([i \in 1..Len(file.entries) |->
                 IF file.entries[i].key = k THEN Entry(k, v, "'") ELSE file.entries[i]])
    ELSE File(Append(file.entries, Entry(k, v, "'")))

\* An assignment to os.environ that is lost.
SetEnviron_Lost(env, k, v) == env

\* os.environ[k] = v
SetEnviron(env, k, v) == [env EXCEPT ![k] = v]

\* The status get_or_create_api_key accepts.
StatusOk == 200
\* Responses of POST /keys: the status, the api_key of the JSON body (Absent when
\* the body has none), the body as text.
Response(st, k, t) == [status |-> st, api_key |-> k, text |-> t]
Responses == { Response(200, "k1", "ok"),
               Response(200, "k2", "ok"),
               Response(201, "k1", "created"),
               Response(200, Absent, "empty"),
               Response(401, Absent, "unauthorized"),
               Response(500, Absent, "failure") }
\* What httpx.post raises when no response arrives.
HttpErrors == { Error("ConnectError", <<"connection", "refused">>),
                Error("TimeoutException", <<"timed", "out">>) }

\* str(x) inside an f-string.
Format(x) == IF x = None THEN "None" ELSE x

InitStartup ==
    /\ variant \in {"langflow", "sdk"}
    /\ ChatIdle
    /\ TextIdle
    /\ phase = "boot"
    /\ environ \in StartEnvirons(variant)
    /\ dotenv \in Files
    /\ client = NoClient
    /\ key_calls = 0
    /\ key_requests = 0
    /\ key_response = NoResponse
    /\ key_returned = None
    /\ startup_error = NoError
    /\ key_printed = None
    /\ repr_out = <<>>
    /\ UtilsIdle

\* import config: Config() loads the .env, validate(require_api_key=False) passes.
ConfigImport ==
    /\ variant = "sdk"
    /\ phase = "boot"
    /\ \E other \in FallbackFiles :
         LET env == Config_init(environ, dotenv, other)
         IN  /\ validate(env, FALSE) = NoError
             /\ environ' = env
    /\ phase' = "imported"
    /\ UNCHANGED <<dotenv, client, key_calls, key_requests, key_response, key_returned,
                   startup_error, key_printed, repr_out>>
    /\ UNCHANGED <<chatVars, textVars, utilVars>>

\* import config: validate raises, the program ends before main runs.
ConfigImportRaises ==
    /\ variant = "sdk"
    /\ phase = "boot"
    /\ \E other \in FallbackFiles :
         LET env == Config_init(environ, dotenv, other)
         IN  /\ validate(env, FALSE) # NoError
             /\ environ' = env
             /\ startup_error' = validate(env, FALSE)
    /\ phase' = "config_error"
    /\ UNCHANGED <<dotenv, client, key_calls, key_requests, key_response, key_returned,
                   key_printed, repr_out>>
    /\ UNCHANGED <<chatVars, textVars, utilVars>>

\* get_or_create_api_key can be called: by main after the import, or again later.
KeyCallable ==
    /\ variant = "sdk"
    /\ phase \in {"imported", "key", "loop"}
    /\ key_calls < MaxKeyCalls

\* Where the start-up is once get_or_create_api_key has returned.
AfterKey == IF phase = "imported" THEN "key" ELSE phase

\* get_or_create_api_key: the environment has a key.
KeyExists ==
    /\ KeyCallable
    /\ Truthy(OPENRAG_API_KEY(environ))
    /\ key_calls' = key_calls + 1
    /\ key_returned' = OPENRAG_API_KEY(environ)
    /\ phase' = AfterKey
    /\ UNCHANGED <<environ, dotenv, client, key_requests, key_response, startup_error,
                   key_printed, repr_out>>
    /\ UNCHANGED <<chatVars, textVars, utilVars>>

\* get_or_create_api_key: the backend answers 200 with a key.
KeyCreated ==
    /\ KeyCallable
    /\ ~Truthy(OPENRAG_API_KEY(environ))
    /\ \E r \in Responses :
         /\ r.status = StatusOk
         /\ r.api_key # Absent
         /\ key_response' = r
         /\ IF dotenv.exists
            THEN /\ dotenv' = set_key(dotenv, "OPENRAG_API_KEY", r.api_key)
                 /\ key_printed' = key_printed
            ELSE /\ dotenv' = dotenv
                 /\ key_printed' = r.api_key
         /\ environ' = SetEnviron(environ, "OPENRAG_API_KEY", r.api_key)
         /\ key_returned' = r.api_key
    /\ key_calls' = key_calls + 1
    /\ key_requests' = key_requests + 1
    /\ phase' = AfterKey
    /\ UNCHANGED <<client, startup_error, repr_out>>
    /\ UNCHANGED <<chatVars, textVars, utilVars>>

\* get_or_create_api_key: the status is not 200; the exception leaves main.
KeyRejected ==
    /\ KeyCallable
    /\ ~Truthy(OPENRAG_API_KEY(environ))
    /\ \E r \in Responses :
         /\ r.status # StatusOk
         /\ key_response' = r
         /\ startup_error' = Error("Exception", <<"Failed to create API key:", r.text>>)
    /\ key_calls' = key_calls + 1
    /\ key_requests' = key_requests + 1
    /\ phase' = "aborted"
    /\ UNCHANGED <<environ, dotenv, client, key_returned, key_printed, repr_out>>
    /\ UNCHANGED <<chatVars, textVars, utilVars>>

\* get_or_create_api_key: the body of a 200 has no api_key; the KeyError leaves main.
KeyMissingInBody ==
    /\ KeyCallable
    /\ ~Truthy(OPENRAG_API_KEY(environ))
    /\ \E r \in Responses :
         /\ r.status = StatusOk
         /\ r.api_key = Absent
         /\ key_response' = r
    /\ startup_error' = Error("KeyError", <<"api_key">>)
    /\ key_calls' = key_calls + 1
    /\ key_requests' = key_requests + 1
    /\ phase' = "aborted"
    /\ UNCHANGED <<environ, dotenv, client, key_returned, key_printed, repr_out>>
    /\ UNCHANGED <<chatVars, textVars, utilVars>>

\* get_or_create_api_key: httpx.post raises; the exception leaves main.
KeyRequestRaises ==
    /\ KeyCallable
    /\ ~Truthy(OPENRAG_API_KEY(environ))
    /\ \E e \in HttpErrors : startup_error' = e
    /\ key_calls' = key_calls + 1
    /\ key_requests' = key_requests + 1
    /\ phase' = "aborted"
    /\ UNCHANGED <<environ, dotenv, client, key_response, key_returned, key_printed,
                   repr_out>>
    /\ UNCHANGED <<chatVars, textVars, utilVars>>

\* main of src/python/main.py: the client is opened, run_chat_session starts.
MainOpensClient ==
    /\ variant = "sdk"
    /\ phase = "key"
    /\ client' = [base_url |-> <<OPENRAG_URL(environ)>>, api_key |-> key_returned]
    /\ phase' = "loop"
    /\ UNCHANGED <<environ, dotenv, key_calls, key_requests, key_response, key_returned,
                   startup_error, key_printed, repr_out>>
    /\ UNCHANGED <<chatVars, textVars, utilVars>>

\* repr(config)
ConfigRepr ==
    /\ variant = "sdk"
    /\ phase \in {"imported", "key", "loop"}
    /\ repr_out # Config_repr(environ)
    /\ repr_out' = Config_repr(environ)
    /\ UNCHANGED <<phase, environ, dotenv, client, key_calls, key_requests, key_response,
                   key_returned, startup_error, key_printed>>
    /\ UNCHANGED <<chatVars, textVars, utilVars>>

\* The module level of src/main.py: load_dotenv(), nothing is validated.
LangflowImport ==
    /\ variant = "langflow"
    /\ phase = "boot"
    /\ environ' = load_dotenv(environ, dotenv)
    /\ phase' = "imported"
    /\ UNCHANGED <<dotenv, client, key_calls, key_requests, key_response, key_returned,
                   startup_error, key_printed, repr_out>>
    /\ UNCHANGED <<chatVars, textVars, utilVars>>

\* main of src/main.py: the client is built from the two globals, the loop starts.
LangflowMain ==
    /\ variant = "langflow"
    /\ phase = "imported"
    /\ client' = [base_url |-> <<Format(getenv(environ, "LANGFLOW_SERVER_URL", None)),
                                 "/api/v1/">>,
                  api_key |-> getenv(environ, "LANGFLOW_API_KEY", None)]
    /\ phase' = "loop"
    /\ UNCHANGED <<environ, dotenv, key_calls, key_requests, key_response, key_returned,
                   startup_error, key_printed, repr_out>>
    /\ UNCHANGED <<chatVars, textVars, utilVars>>

NextStartup ==
    \/ ConfigImport
    \/ ConfigImportRaises
    \/ KeyExists
    \/ KeyCreated
    \/ KeyRejected
    \/ KeyMissingInBody
    \/ KeyRequestRaises
    \/ MainOpensClient
    \/ ConfigRepr
    \/ LangflowImport
    \/ LangflowMain

SpecStartup == InitStartup /\ [][NextStartup]_vars

-----------------------------------------------------------------------------
(* The operations of src/python/openrag_utils that take an optional client.  *)
(* The caller holds one open client, "supplied", and passes it or not; a     *)
(* client the operation opens itself is "own".                               *)

\* How many operations a caller runs one after the other.
MaxOps == 2
\* Longest event sequence a stream of chat_streaming delivers.
MaxStreamEvents == 2

\* The operations.
Operations == {"get_settings", "update_settings", "chat_simple", "chat_streaming",
               "list_conversations", "get_conversation", "delete_conversation",
               "search_query", "ingest_document", "delete_document", "search_filters",
               "get_filter"}

\* Events a stream of chat_streaming delivers.
UtilEvents == { Event("content", PyStr(<<"a">>), Absent, <<>>),
                Event("sources", PyNone, Absent, <<>>),
                Event("done", PyNone, "id1", <<>>) }
\* The stream objects: their events and what stream.text, stream.chat_id and
\* stream.sources hold once the events were read.
Streams == [events : SeqsUpTo(UtilEvents, MaxStreamEvents),
            text : {<<>>, <<"a">>},
            chat_id : {None, "id1"},
            sources : {<<>>, <<"doc">>}]
\* What a backend call raises.
BackendErrors == { Error("Exception", <<"backend", "failed">>),
                   Error("ConnectionError", <<"connection", "refused">>) }

\* Entered that wraps the caller's client too.
Entered_Both(supplied) == IF supplied THEN {"supplied"} ELSE {"own"}

\* The clients the operation enters with 'async with': none when the caller
\* passed one ('if client:'), else OpenRAGClient().
Entered(supplied) == IF supplied THEN {} ELSE {"own"}

\* The client the backend call is made on.
UsedClient(supplied) == IF supplied THEN "supplied" ELSE "own"

\* The final record with the chat_id left out.
FinalRecord_NoChatId(st) ==
    [type |-> "final", text |-> st.text, chat_id |-> None, sources |-> st.sources]

\* {"type": "final", "text": stream.text, "chat_id": stream.chat_id,
\*  "sources": stream.sources}
FinalRecord(st) ==
    [type |-> "final", text |-> st.text, chat_id |-> st.chat_id, sources |-> st.sources]

\* The 'async with' blocks of the operation are left: what it entered is closed.
ExitOperation ==
    /\ u_open' = u_open \ Entered(u_supplied)
    /\ u_closed' = u_closed + Cardinality(Entered(u_supplied))
    /\ u_pc' = "idle"

\* An operation starts: the client is chosen, a missing one is opened.
EnterOperation(name, supplied) ==
    /\ u_pc = "idle"
    /\ u_ops < MaxOps
    /\ u_ops' = u_ops + 1
    /\ u_op' = name
    /\ u_supplied' = supplied
    /\ u_open' = u_open \cup Entered(supplied)
    /\ u_opened' = Cardinality(Entered(supplied))
    /\ u_closed' = 0
    /\ u_used' = UsedClient(supplied)
    /\ u_pos' = 0
    /\ u_yielded' = <<>>
    /\ u_result' = "none"
    /\ u_error' = NoError

InitUtils ==
    /\ variant = "sdk"
    /\ ChatIdle
    /\ TextIdle
    /\ StartupIdle
    /\ UtilsIdle

\* One of the eleven operations that return a value is called.
CallOperation ==
    /\ \E name \in Operations \ {"chat_streaming"}, supplied \in BOOLEAN :
         EnterOperation(name, supplied)
    /\ u_pc' = "call"
    /\ u_stream' = NoStream
    /\ UNCHANGED <<chatVars, textVars, startupVars>>

\* The backend call returns, and the operation with it.
OperationReturns ==
    /\ u_pc = "call"
    /\ ExitOperation
    /\ u_result' = "returned"
    /\ UNCHANGED <<u_ops, u_op, u_supplied, u_opened, u_used, u_stream, u_pos, u_yielded,
                   u_error>>
    /\ UNCHANGED <<chatVars, textVars, startupVars>>

\* The backend call raises; the exception leaves the operation.
OperationRaises ==
    /\ u_pc = "call"
    /\ ExitOperation
    /\ u_result' = "raised"
    /\ \E e \in BackendErrors : u_error' = e
    /\ UNCHANGED <<u_ops, u_op, u_supplied, u_opened, u_used, u_stream, u_pos, u_yielded>>
    /\ UNCHANGED <<chatVars, textVars, startupVars>>

\* chat_streaming is called and its stream opened.
CallChatStreaming ==
    /\ \E supplied \in BOOLEAN : EnterOperation("chat_streaming", supplied)
    /\ u_pc' = "stream"
    /\ \E st \in Streams : u_stream' = st
    /\ UNCHANGED <<chatVars, textVars, startupVars>>

\* async for event in stream: yield event
StreamingYields ==
    /\ u_pc = "stream"
    /\ u_pos < Len(u_stream.events)
    /\ u_pos' = u_pos + 1
    /\ u_yielded' = Append(u_yielded, u_stream.events[u_pos + 1])
    /\ UNCHANGED <<u_pc, u_ops, u_op, u_supplied, u_open, u_opened, u_closed, u_used,
                   u_stream, u_result, u_error>>
    /\ UNCHANGED <<chatVars, textVars, startupVars>>

\* The stream is exhausted: the final record is yielded.
StreamingYieldsFinal ==
    /\ u_pc = "stream"
    /\ u_pos = Len(u_stream.events)
    /\ u_yielded' = Append(u_yielded, FinalRecord(u_stream))
    /\ u_pc' = "final"
    /\ UNCHANGED <<u_ops, u_op, u_supplied, u_open, u_opened, u_closed, u_used, u_stream,
                   u_pos, u_result, u_error>>
    /\ UNCHANGED <<chatVars, textVars, startupVars>>

\* The consumer asks for more after the final record: the generator ends.
StreamingReturns ==
    /\ u_pc = "final"
    /\ ExitOperation
    /\ u_result' = "returned"
    /\ UNCHANGED <<u_ops, u_op, u_supplied, u_opened, u_used, u_stream, u_pos, u_yielded,
                   u_error>>
    /\ UNCHANGED <<chatVars, textVars, startupVars>>

\* The stream raises when it is opened or read; the exception leaves the generator.
StreamingRaises ==
    /\ u_pc = "stream"
    /\ ExitOperation
    /\ u_result' = "raised"
    /\ \E e \in BackendErrors : u_error' = e
    /\ UNCHANGED <<u_ops, u_op, u_supplied, u_opened, u_used, u_stream, u_pos, u_yielded>>
    /\ UNCHANGED <<chatVars, textVars, startupVars>>

\* The consumer stops after an item and closes the generator.
StreamingClosed ==
    /\ u_pc \in {"stream", "final"}
    /\ u_yielded # <<>>
    /\ ExitOperation
    /\ u_result' = "closed"
    /\ UNCHANGED <<u_ops, u_op, u_supplied, u_opened, u_used, u_stream, u_pos, u_yielded,
                   u_error>>
    /\ UNCHANGED <<chatVars, textVars, startupVars>>

NextUtils ==
    \/ CallOperation
    \/ OperationReturns
    \/ OperationRaises
    \/ CallChatStreaming
    \/ StreamingYields
    \/ StreamingYieldsFinal
    \/ StreamingReturns
    \/ StreamingRaises
    \/ StreamingClosed

SpecUtils == InitUtils /\ [][NextUtils]_vars

-----------------------------------------------------------------------------
(* Vocabulary of the properties, defined on the delivered sequence alone *)

\* The session's continuation id.
SessionId == IF variant = "langflow" THEN previous_response_id ELSE chat_id

\* The id the aggregator holds while it runs.
CapturedId == IF variant = "langflow" THEN response_id ELSE final_chat_id

\* The delta text a chunk or event carries: a string delta, or the string
\* content of a mapping delta; the delta of a content event.
DeltaText(x) ==
    IF variant = "langflow"
    THEN IF x.delta.t = "str" \/ (x.delta.t = "dict" /\ x.delta.ct = "str")
         THEN x.delta.v ELSE <<>>
    ELSE IF x.type = "content" /\ x.delta.t = "str" THEN x.delta.v ELSE <<>>

RECURSIVE ConcatDeltas(_)
ConcatDeltas(seq) ==
    IF seq = <<>> THEN <<>> ELSE DeltaText(Head(seq)) \o ConcatDeltas(Tail(seq))

\* The chunks or events the aggregator has consumed.
Consumed == SubSeq(stream, 1, pos)

\* The aggregator has returned and the turn's locals are still to be seen.
TurnReturned == pc = "done" /\ outcome = "returned"

-----------------------------------------------------------------------------
(* C1 *)

\* C1 as stated: whenever the delivered sequence holds a non-empty delta, the text
\* a turn ends with is the concatenation of every non-empty delta of the sequence.
C1_AllDeltasOfSequence ==
    (TurnReturned /\ ConcatDeltas(stream) # <<>>) => accumulated = ConcatDeltas(stream)

\* C1 (amended): while a turn runs and when it has returned, the accumulated text
\* is the concatenation, in arrival order, of the non-empty deltas of the chunks or
\* events consumed so far; what follows the point where the aggregator stopped
\* adds nothing.
C1_ConsumedDeltasConcatenated ==
    (pc = "stream" \/ TurnReturned) => accumulated = ConcatDeltas(Consumed)

\* A turn returned text although a later chunk of the sequence carried more.
C1_Witness ==
    /\ TurnReturned
    /\ accumulated # <<>>
    /\ pos < Len(stream)
    /\ ConcatDeltas(stream) # accumulated

-----------------------------------------------------------------------------
(* C2 *)

\* The id a chunk or event shows: the top-level id of a chunk, the chat_id of a
\* done event; None when it shows none.
ObservedId(x) ==
    IF variant = "langflow" THEN x.id
    ELSE IF x.type = "done" /\ x.chat_id # Absent THEN x.chat_id ELSE None

RECURSIVE FirstObservedId(_)
FirstObservedId(seq) ==
    IF seq = <<>> THEN None
    ELSE IF ObservedId(Head(seq)) # None THEN ObservedId(Head(seq))
    ELSE FirstObservedId(Tail(seq))

\* C2: once the stream has shown a non-null id, the id the aggregator holds, and
\* the id it returns, is the first non-null id shown; no later chunk or event
\* overwrites it.
C2_FirstIdWins ==
    ((pc = "stream" \/ TurnReturned) /\ FirstObservedId(Consumed) # None)
        => (IF pc = "done" THEN returned ELSE CapturedId) = FirstObservedId(Consumed)

-----------------------------------------------------------------------------
(* C3 *)

\* C3: after a turn that returned, the session's id differs from the id the turn
\* was sent with only if the returned id is non-null, and then it is the returned
\* id; a null return leaves it as it was.
C3_NullReturnKeepsId ==
    TurnReturned =>
        /\ returned = None => SessionId = request.prev
        /\ SessionId # request.prev => (returned # None /\ SessionId = returned)

-----------------------------------------------------------------------------
(* C4 *)

\* The last turn failed because of a connection or timeout failure.
ConnectivityFailure ==
    /\ outcome \in {"connection", "error"}
    /\ raised.cause \in {"ConnectionError", "TimeoutError"}

\* C4: after a turn that failed with a connectivity-class failure the session's id
\* is the id that turn was sent with, and the next turn is sent with that same id.
C4_ConnectivityFailureKeepsId ==
    /\ [](((pc \in {"done", "input"}) /\ ConnectivityFailure) => SessionId = request.prev)
    /\ [][(pc = "input" /\ pc' = "sent" /\ ConnectivityFailure)
            => request'.prev = request.prev]_vars

\* The turn after a connectivity failure is being sent, within a conversation.
C4_Witness ==
    /\ pc = "sent"
    /\ ConnectivityFailure
    /\ request.prev \in Ids

-----------------------------------------------------------------------------
(* C5 *)

\* Messages of the connection-closed-after-content kind.
PeerClosedMessages == { <<"Peer", "Closed", "connection">>,
                        <<"incomplete", "chunked", "read">> }

\* C5: when the iteration of the event stream raised a peer-closed or
\* incomplete-chunked error, stream_response returned exactly if text had been
\* accumulated, with that text and with the stream object's chat_id when it has
\* one; with no text the turn failed.
C5_PeerClosedAfterContent ==
    (variant = "sdk" /\ pc = "done" /\ stream_error.msg \in PeerClosedMessages) =>
        /\ (outcome = "returned") <=> (accumulated # <<>>)
        /\ outcome = "returned" =>
              /\ accumulated = ConcatDeltas(stream)
              /\ Truthy(stream_chat_id) => returned = stream_chat_id
        /\ outcome # "returned" => (outcome = "error" /\ raised.cls = "Exception")

\* A peer-closed error after content: the turn returned the stream object's id.
C5_Witness ==
    /\ variant = "sdk"
    /\ pc = "done"
    /\ stream_error.msg = <<"Peer", "Closed", "connection">>
    /\ outcome = "returned"
    /\ accumulated # <<>>
    /\ Truthy(stream_chat_id)
    /\ returned = stream_chat_id
    /\ returned # request.prev

-----------------------------------------------------------------------------
(* C6, C7 *)

\* C6: in process_question no chunk that follows a chunk with status "completed"
\* is consumed.
C6_CompletedEndsStream ==
    (variant = "langflow" /\ pc \in {"stream", "done"}) =>
        \A i \in 1..(pos - 1) : stream[i].status # "completed"

\* C7: in stream_response no event that follows a done event is consumed.
C7_DoneEndsStream ==
    (variant = "sdk" /\ pc \in {"stream", "done"}) =>
        \A i \in 1..(pos - 1) : stream[i].type # "done"

-----------------------------------------------------------------------------
(* C8 *)

\* A malformed chunk or event: a delta that is neither a string nor a mapping with
\* string content; an event without a type, or a content event whose delta is
\* not a string.
Malformed(x) ==
    IF variant = "langflow"
    THEN x.delta.t = "int" \/ (x.delta.t = "dict" /\ x.delta.ct # "str")
    ELSE x.type = Absent \/ (x.type = "content" /\ x.delta.t \notin {"str", "none"})

\* C8: consuming a malformed chunk or event raises nothing and changes neither the
\* accumulated text nor the turn's outcome; the aggregator goes on to the chunk
\* after it (unless the chunk is the completed one).
C8_MalformedIsSkipped ==
    [][((ProcessChunk \/ StreamEvent) /\ Malformed(stream[pos + 1]))
         => /\ accumulated' = accumulated
            /\ pos' = pos + 1
            /\ outcome' \notin {"error", "connection"}
            /\ pc' = "stream" \/ (variant = "langflow" /\ stream[pos + 1].status = "completed")
      ]_vars

-----------------------------------------------------------------------------
(* C9, C10 *)

\* The exit lines C9 names.
ExitExamples == { <<"q">>, <<"Q">>, <<"q", "u", "i", "t">>, <<"e", "x", "i", "t">>,
                  <<" ", " ", "e", "x", "i", "t", " ", " ">> }

\* Lines that are empty after trimming.
BlankExamples == { <<>>, <<" ">> }

\* A session loop reads a line.
ReadsLine == MainReadInput \/ RunReadInput

\* C9: reading an exit command ends the loop without a request being sent, and
\* an ended loop takes no further step.
C9_ExitCommandEndsLoop ==
    [][/\ pc # "exited"
       /\ (ReadsLine /\ line' \in ExitExamples)
            => (pc' = "exited" /\ request' = request /\ UNCHANGED turnVars
                /\ SessionId' = SessionId)
      ]_vars

\* The loop ended on "  exit  " in the middle of a conversation.
C9_Witness ==
    /\ pc = "exited"
    /\ outcome = "goodbye"
    /\ line = <<" ", " ", "e", "x", "i", "t", " ", " ">>
    /\ SessionId \in Ids

\* C10: reading a blank line sends no request, leaves the session's id alone and
\* leaves the loop at its prompt.
C10_BlankLineIgnored ==
    [][(ReadsLine /\ line' \in BlankExamples)
         => (pc' = "input" /\ request' = request /\ UNCHANGED turnVars
             /\ SessionId' = SessionId /\ UNCHANGED resultVars)
      ]_vars

\* A blank line was read in the middle of a conversation; the prompt is back.
C10_Witness ==
    /\ pc = "input"
    /\ line = <<" ">>
    /\ SessionId \in Ids
    /\ request.prev = None

-----------------------------------------------------------------------------
(* C11, C12, C13 *)

\* This step is one in which a turn (the read of the input included) fails: the
\* session loop catches an exception.
TurnFailure ==
    \/ pc \in {"sent", "stream"} /\ raised' # NoError
    \/ MainInputRaises
    \/ RunInputRaises

\* C11: a failure of a turn other than the user interrupt is caught by the loop,
\* which prints a message and goes on to the next input; the user interrupt ends
\* the loop, and the loop ends in no other way than by it or by an exit command.
C11_FailuresCaughtAtLoop ==
    /\ [][TurnFailure =>
            IF raised'.cls = "KeyboardInterrupt"
            THEN pc' = "exited" /\ outcome' = "interrupted"
            ELSE pc' \in {"done", "input"} /\ outcome' \in {"connection", "error"}]_vars
    /\ [][(pc # "exited" /\ pc' = "exited") =>
            \/ outcome' = "goodbye" /\ ReadsLine
            \/ TurnFailure /\ raised'.cls = "KeyboardInterrupt"]_vars
    /\ [][pc = "done" => pc' = "input"]_vars

\* After a turn failed with an error that is not a connectivity failure, the next
\* request is on its way.
C11_Witness ==
    /\ pc = "sent"
    /\ outcome = "error"
    /\ raised.cls \in {"Exception", "TypeError"}
    /\ raised.cause \notin {"ConnectionError", "TimeoutError"}

\* C12: a turn that fails because of a ConnectionError or TimeoutError is reported
\* through the connectivity branch, and the loop goes on.
C12_ConnectivityBranch ==
    [][(TurnFailure /\ raised'.cause \in {"ConnectionError", "TimeoutError"})
         => (outcome' = "connection" /\ pc' = "done")]_vars

\* C13: a KeyboardInterrupt is never caught by the aggregator's handlers nor
\* wrapped into another error; once raised it ends the loop, and an ended loop
\* takes no further step.
C13_InterruptEndsSession ==
    /\ [](/\ stream_error.cls # "KeyboardInterrupt"
          /\ raised.cause = "KeyboardInterrupt" => raised.cls = "KeyboardInterrupt"
          /\ raised.cls = "KeyboardInterrupt" => (pc = "exited" /\ outcome = "interrupted"))
    /\ [][TurnFailure \/ raised'.cls # "KeyboardInterrupt" \/ raised' = raised]_vars
    /\ [][pc # "exited"]_vars

\* The interrupt arrived while a stream that had delivered text was being read.
C13_Witness ==
    /\ variant = "sdk"
    /\ pc = "exited"
    /\ outcome = "interrupted"
    /\ raised.cls = "KeyboardInterrupt"
    /\ accumulated # <<>>

-----------------------------------------------------------------------------
(* C14 *)

\* The turn returned after its stream ended (or completed) without an error,
\* no consumed chunk or event carried an id, and the stream object had none.
StreamEndedWithoutId ==
    /\ TurnReturned
    /\ stream_error = NoError
    /\ \A i \in 1..pos : ~Truthy(ObservedId(stream[i]))
    /\ ~Truthy(stream_chat_id)

\* The last done event consumed carried an explicit null chat_id.
LastDoneIsNull ==
    LET dones == { i \in 1..pos : stream[i].type = "done" } IN
    /\ dones # {}
    /\ stream[CHOOSE i \in dones : \A j \in dones : j <= i].chat_id = None

-----------------------------------------------------------------------------
(* C15 *)

\* C15: when an error was raised while stream_response held the stream, it
\* returned exactly if text had been accumulated; otherwise it raised an Exception
\* whose message is "Streaming error:" followed by the message of the error.
C15_RaisesIffNoText ==
    (variant = "sdk" /\ pc = "done" /\ stream_error # NoError) =>
        /\ (outcome = "returned") <=> (accumulated # <<>>)
        /\ outcome = "returned" => raised = NoError
        /\ outcome # "returned" =>
              /\ outcome = "error"
              /\ raised.cls = "Exception"
              /\ raised.msg = <<"Streaming", "error:">> \o stream_error.msg
              /\ raised.cause = stream_error.cls

\* A timeout while reading, after text had arrived: the turn returned the text.
C15_Witness ==
    /\ variant = "sdk"
    /\ pc = "done"
    /\ stream_error.cls = "TimeoutError"
    /\ outcome = "returned"
    /\ accumulated # <<>>
    /\ returned = request.prev

-----------------------------------------------------------------------------
(* C16, C17 *)

\* The arguments of the callback that a sequence of events calls for, starting
\* from the text acc: one per non-empty delta, each the text so far.
RECURSIVE CallbackArgs(_, _)
CallbackArgs(seq, acc) ==
    IF seq = <<>> THEN <<>>
    ELSE IF DeltaText(Head(seq)) = <<>> THEN CallbackArgs(Tail(seq), acc)
    ELSE <<acc \o DeltaText(Head(seq))>>
             \o CallbackArgs(Tail(seq), acc \o DeltaText(Head(seq)))

\* C16: in stream_response the callback has been invoked once for each consumed
\* content event with a non-empty delta and for no other, in order, each time with
\* the text accumulated up to that event; the last argument is the accumulated
\* text; each step adds at most one invocation and drops none.
C16_CallbackPerDelta ==
    /\ []((variant = "sdk" /\ (pc = "stream" \/ TurnReturned)) =>
            /\ calls = CallbackArgs(Consumed, <<>>)
            /\ calls # <<>> => calls[Len(calls)] = accumulated)
    /\ [][(variant = "sdk" /\ pc = "stream" /\ (pc' = "stream" \/ outcome' = "returned")) =>
            /\ Len(calls') \in {Len(calls), Len(calls) + 1}
            /\ SubSeq(calls', 1, Len(calls)) = calls]_vars

\* A turn returned after two invocations with an event in between that called
\* for none.
C16_Witness ==
    /\ variant = "sdk"
    /\ TurnReturned
    /\ stream_error = NoError
    /\ Len(calls) = 2
    /\ pos = 3
    /\ calls[1] # calls[2]

\* C17: when the callback raised, the turn failed: stream_response did not return.
C17_CallbackErrorFailsTurn ==
    (variant = "sdk" /\ pc = "done" /\ stream_error \in CallbackErrors) =>
        (outcome = "error" /\ raised.cause = stream_error.cls)

-----------------------------------------------------------------------------
(* C18, C19 *)

\* C18: highlight_search_fields applied to its own result changes nothing.
C18_HighlightIdempotent ==
    op = "fields2" => rendered = markdown_text

\* C19: make_links_clickable applied to its own result changes nothing.
C19_LinksIdempotent ==
    op = "links2" => rendered = markdown_text

-----------------------------------------------------------------------------
(* C20 *)

\* The occurrences of [text](url) in s, as <<i, k, m>>: "[" at i, "]" at k with
\* "(" right after it, ")" at m; a text without "]", a url without ")", neither
\* empty.
LinkSpans(s) ==
    UNION { UNION { { <<i, k, m>> :
                        m \in { m \in (k + 3)..Len(s) :
                                  /\ s[m] = ")"
                                  /\ \A j \in (k + 2)..(m - 1) : s[j] # ")" } } :
                    k \in { k \in (i + 2)..(Len(s) - 1) :
                              /\ s[k] = "]"
                              /\ s[k + 1] = "("
                              /\ \A j \in (i + 1)..(k - 1) : s[j] # "]" } } :
            i \in { i \in 1..Len(s) : s[i] = "[" } }

\* s from position from on, with each occurrence that starts outside the ones
\* before it replaced by its markup and every other character kept.
RECURSIVE Rewritten(_, _, _)
Rewritten(s, spans, from) ==
    LET later == { sp \in spans : sp[1] >= from } IN
    IF later = {} THEN SubSeq(s, from, Len(s))
    ELSE LET sp == CHOOSE x \in later : \A y \in later : x[1] <= y[1] IN
         SubSeq(s, from, sp[1] - 1)
            \o <<"[", "link=">> \o SubSeq(s, sp[2] + 2, sp[3] - 1) \o <<"]">>
            \o SubSeq(s, sp[1] + 1, sp[2] - 1) \o <<"[", "/link", "]">>
            \o Rewritten(s, spans, sp[3] + 1)

\* Two adjacent links, and what they are to become.
TwoLinks == <<"[", "a", "]", "(", "u", ")", "[", "b", "]", "(", "v", ")">>
TwoLinksMarkup == <<"[", "link=", "u", "]", "a", "[", "/link", "]",
                    "[", "link=", "v", "]", "b", "[", "/link", "]">>

\* C20: make_links_clickable turns every occurrence of [text](url) into
\* [link=url]text[/link], each text with its own url, and keeps every character
\* outside the occurrences, in order.
C20_EveryLinkRewritten ==
    op = "links" =>
        /\ rendered = Rewritten(markdown_text, LinkSpans(markdown_text), 1)
        /\ LinkSpans(markdown_text) = {} => rendered = markdown_text
        /\ markdown_text = TwoLinks => rendered = TwoLinksMarkup

\* Two adjacent links have been rewritten, with the text before them left alone.
C20_Witness ==
    /\ op = "links"
    /\ markdown_text = <<"x">> \o TwoLinks
    /\ rendered = <<"x">> \o TwoLinksMarkup

-----------------------------------------------------------------------------
(* C24 *)

\* C24: one turn at a time.  A turn is running exactly while its stream is being
\* read; a stream exists only during a turn; a line is read only when no turn is
\* running and the last turn's stream is gone; a step consumes at most one chunk
\* or event; the callback is invoked at most once in a step, in the step that
\* extended the accumulated text and with that text.
C24_OneTurnAtATime ==
    /\ [](/\ outcome = "running" <=> pc = "stream"
          /\ pc \notin {"stream", "done"} => (stream = <<>> /\ pos = 0 /\ calls = <<>>))
    /\ [][ReadsLine => (pc = "input" /\ outcome # "running" /\ stream = <<>>)]_vars
    /\ [][pos' <= pos + 1]_vars
    /\ [][(calls' # calls /\ calls' # <<>>) =>
            /\ pc = "stream"
            /\ calls' = Append(calls, accumulated')
            /\ accumulated' # accumulated]_vars

\* A turn has returned, its locals are gone, and the next line is to be read.
C24_Witness ==
    /\ pc = "input"
    /\ outcome = "returned"
    /\ returned \in Ids
    /\ stream = <<>>
    /\ request.input # <<>>

-----------------------------------------------------------------------------
(* C27 *)

\* C27: in the Langflow session the id kept for the next request changes only
\* when a turn returns a non-empty id, and then to that id; a request is sent
\* with the id kept (with none when none is kept); an id once kept is never
\* replaced by none.
C27_LastReturnedIdIsSent ==
    /\ [][variant = "langflow" =>
            IF pc = "stream" /\ outcome' = "returned" /\ returned' \notin {None, ""}
            THEN previous_response_id' = returned'
            ELSE previous_response_id' = previous_response_id]_vars
    /\ [][(variant = "langflow" /\ pc = "input" /\ pc' = "sent")
            => request'.prev = previous_response_id]_vars
    /\ [][(variant = "langflow" /\ previous_response_id # None)
            => previous_response_id' # None]_vars

\* A request carries the id of an earlier turn although the last turn returned
\* none.
C27_Witness ==
    /\ variant = "langflow"
    /\ pc = "sent"
    /\ request.prev \in Ids
    /\ outcome = "returned"
    /\ returned \in {None, ""}

-----------------------------------------------------------------------------
(* C29 *)

\* C29: a loop ends only by an exit command or a KeyboardInterrupt; an exception
\* raised by the read of the input that is not a KeyboardInterrupt is reported,
\* changes nothing of the session, and leaves the loop about to read again.
C29_OnlyExitOrInterruptEnds ==
    /\ [][(pc # "exited" /\ pc' = "exited")
            => (outcome' = "goodbye" \/ raised'.cls = "KeyboardInterrupt")]_vars
    /\ [][((MainInputRaises \/ RunInputRaises) /\ raised'.cls # "KeyboardInterrupt")
            => (pc' = "input" /\ outcome' = "error"
                /\ UNCHANGED <<sessionVars, request, turnVars>>)]_vars

\* The read of the input failed at the end of the input; the loop reads again.
C29_Witness ==
    /\ pc = "input"
    /\ raised.cls = "EOFError"
    /\ outcome = "error"

-----------------------------------------------------------------------------
(* C21 *)

\* The variables the claim calls required.
RequiredNames ==
    IF variant = "langflow" THEN {"LANGFLOW_SERVER_URL", "LANGFLOW_API_KEY"}
    ELSE {"OPENRAG_URL"}
\* One of them is missing, also after the .env was loaded.
MissingRequired == phase # "boot" /\ \E n \in RequiredNames : environ[n] = Absent

\* C21: when a required configuration variable is missing at start-up, the program
\* fails with a configuration error before the session loop starts and before any
\* request is sent.
C21_MissingConfigFailsFast ==
    MissingRequired =>
        /\ phase # "loop"
        /\ key_requests = 0
        /\ client = NoClient

-----------------------------------------------------------------------------
(* C22 *)

\* A success status of HTTP.
IsSuccess(st) == st \in 200..299
\* A step in which a response to the key-creation request arrives.
ResponseArrives == key_requests' = key_requests + 1 /\ key_response' # NoResponse

\* The half of C22 about a non-success status: the function raises with the body
\* of the response, writes neither the .env nor the environment, and the loop is
\* never entered.
C22_RejectedAborts ==
    /\ [][(ResponseArrives /\ ~IsSuccess(key_response'.status)) =>
            /\ phase' = "aborted"
            /\ startup_error' =
                   Error("Exception", <<"Failed to create API key:", key_response'.text>>)
            /\ UNCHANGED <<dotenv, environ, key_returned, client>>]_vars
    /\ [][phase = "aborted" => phase' = "aborted"]_vars
    /\ [](phase = "aborted" => client = NoClient)

\* C22: a non-success status of the key-creation call aborts the start-up with the
\* body of the response, nothing written and the loop never entered; a success
\* status never aborts the start-up.
C22_AbortsIffRejected ==
    /\ C22_RejectedAborts
    /\ [][(ResponseArrives /\ IsSuccess(key_response'.status)) => phase' # "aborted"]_vars

-----------------------------------------------------------------------------
(* C23 *)

\* A step in which get_or_create_api_key obtains a new key.
ObtainsNewKey == key_requests' = key_requests + 1 /\ phase' # "aborted"

\* C23: a new key changes only the OPENRAG_API_KEY bindings of an existing .env
\* (one is added when there is none) and leaves every other binding as it was;
\* without a .env no file is created and the key is printed; in both cases the key
\* is set in the environment, and only there, and returned.
C23_OnlyTheKeyEntryChanges ==
    [][ObtainsNewKey =>
        /\ key_returned' = key_response'.api_key
        /\ key_returned' # Absent
        /\ environ'["OPENRAG_API_KEY"] = key_returned'
        /\ \A n \in EnvNames \ {"OPENRAG_API_KEY"} : environ'[n] = environ[n]
        /\ IF dotenv.exists
           THEN /\ dotenv'.exists
                /\ key_printed' = key_printed
                /\ Len(dotenv'.entries) \in {Len(dotenv.entries), Len(dotenv.entries) + 1}
                /\ Len(dotenv'.entries) = Len(dotenv.entries) <=>
                       \E i \in 1..Len(dotenv.entries) :
                           dotenv.entries[i].key = "OPENRAG_API_KEY"
                /\ \A i \in 1..Len(dotenv.entries) :
                       IF dotenv.entries[i].key = "OPENRAG_API_KEY"
                       THEN /\ dotenv'.entries[i].key = "OPENRAG_API_KEY"
                            /\ dotenv'.entries[i].value = key_returned'
                       ELSE dotenv'.entries[i] = dotenv.entries[i]
                /\ \A i \in (Len(dotenv.entries) + 1)..Len(dotenv'.entries) :
                       /\ dotenv'.entries[i].key = "OPENRAG_API_KEY"
                       /\ dotenv'.entries[i].value = key_returned'
           ELSE /\ dotenv' = NoFile
                /\ key_printed' = key_returned']_vars

\* A key was created and written to a .env that binds another variable too.
C23_Witness ==
    /\ key_requests = 1
    /\ key_returned = key_response.api_key
    /\ dotenv.exists
    /\ Len(dotenv.entries) = 2
    /\ dotenv.entries[1] = Entry("OPENRAG_API_KEY", key_returned, "'")
    /\ dotenv.entries[2] = Entry("EVERART_API_KEY", "s2", "\"")
    /\ environ["OPENRAG_API_KEY"] = key_returned

-----------------------------------------------------------------------------
(* C25 *)

\* The variables whose values are sensitive, and how __repr__ labels them.
SecretNames == {"OPENRAG_API_KEY", "EVERART_API_KEY", "ASTRA_DB_ENDPOINT",
                "ASTRA_DB_APPLICATION_TOKEN"}
Label(n) ==
    CASE n = "OPENRAG_API_KEY" -> "OPENRAG_API_KEY="
      [] n = "EVERART_API_KEY" -> "EVERART_API_KEY="
      [] n = "ASTRA_DB_ENDPOINT" -> "ASTRA_DB_ENDPOINT="
      [] n = "ASTRA_DB_APPLICATION_TOKEN" -> "ASTRA_DB_APPLICATION_TOKEN="
\* The variable is set and not empty.
IsSet(env, n) == env[n] \notin {Absent, ""}
\* What the output shows right after a label.
ShownAfter(out, label) == out[(CHOOSE i \in 1..Len(out) : out[i] = label) + 1]
\* The environments that differ from env only in the values of the sensitive
\* variables that env sets.
OtherSecrets(env) ==
    { [n \in EnvNames |-> IF n \in SecretNames /\ IsSet(env, n) THEN f[n] ELSE env[n]] :
        f \in [SecretNames -> {"x1", "x2"}] }

\* C25: the output of Config.__repr__ contains the value of no sensitive variable;
\* each is shown as '***' when set and not empty and as 'NOT SET' otherwise; the
\* output is the same for every other choice of the values that are set.
C25_ReprHidesSecrets ==
    [][repr_out' # repr_out =>
        /\ \A n \in SecretNames :
              ShownAfter(repr_out', Label(n)) = IF IsSet(environ, n) THEN "***" ELSE "NOT SET"
        /\ \A n \in SecretNames : \A i \in 1..Len(repr_out') :
              IsSet(environ, n) => repr_out'[i] # environ[n]
        /\ \A env2 \in OtherSecrets(environ) : Config_repr(env2) = repr_out']_vars

\* The configuration was shown with some sensitive variables set and some not.
C25_Witness ==
    /\ repr_out = Config_repr(environ)
    /\ IsSet(environ, "OPENRAG_API_KEY")
    /\ IsSet(environ, "EVERART_API_KEY")
    /\ environ["ASTRA_DB_ENDPOINT"] = Absent
    /\ environ["ASTRA_DB_APPLICATION_TOKEN"] = "s1"

-----------------------------------------------------------------------------
(* C26 *)

\* A step in which get_or_create_api_key is called and returns or raises.
KeyCalled == key_calls' = key_calls + 1

\* C26: at most one key is created per process.  A call made when the key is set
\* (and not empty) returns it, sends no request and writes nothing; a call made
\* after a key was created returns that key and sends no request.
C26_AtMostOneKeyCreated ==
    /\ [](key_requests <= 1)
    /\ [][(KeyCalled /\ IsSet(environ, "OPENRAG_API_KEY")) =>
            /\ key_returned' = environ["OPENRAG_API_KEY"]
            /\ UNCHANGED <<key_requests, dotenv, environ, key_printed>>]_vars
    /\ [][(KeyCalled /\ key_requests = 1 /\ phase # "aborted") =>
            /\ key_returned' = key_response.api_key
            /\ key_returned' = key_returned
            /\ key_requests' = key_requests]_vars

\* A second call returned the key the first call had created.
C26_Witness ==
    /\ key_calls = 2
    /\ key_requests = 1
    /\ key_returned = key_response.api_key
    /\ phase # "aborted"

-----------------------------------------------------------------------------
(* C28 *)

\* The record that ends a stream, as the claim describes it.
ExpectedFinal ==
    [type |-> "final", text |-> u_stream.text, chat_id |-> u_stream.chat_id,
     sources |-> u_stream.sources]
\* The items of type 'final' among what was yielded.
FinalsYielded == { i \in 1..Len(u_yielded) : u_yielded[i].type = "final" }

\* C28: chat_streaming yields the events of the stream unchanged and in order,
\* then one final record with the stream's text, chat_id and sources, which is the
\* last item; when the stream raises, no final record is yielded and the error
\* reaches the consumer.
C28_EventsThenOneFinal ==
    u_op = "chat_streaming" =>
        /\ \A i \in 1..Len(u_yielded) :
              u_yielded[i] = (u_stream.events \o <<ExpectedFinal>>)[i]
        /\ Len(u_yielded) <= Len(u_stream.events) + 1
        /\ u_result = "returned" =>
              /\ u_yielded = u_stream.events \o <<ExpectedFinal>>
              /\ FinalsYielded = {Len(u_yielded)}
        /\ u_result = "raised" =>
              /\ u_yielded = SubSeq(u_stream.events, 1, u_pos)
              /\ FinalsYielded = {}
              /\ u_error \in BackendErrors

\* A stream of two events was yielded whole, with its final record.
C28_Witness ==
    /\ u_op = "chat_streaming"
    /\ u_result = "returned"
    /\ Len(u_stream.events) = 2
    /\ Len(u_yielded) = 3
    /\ u_yielded[3].chat_id = "id1"

-----------------------------------------------------------------------------
(* C30 *)

\* C30: the caller's client is never closed; an operation given a client uses it
\* and opens none; an operation given none opens exactly one, uses it, and has
\* closed it when it ends, however it ends.
C30_SuppliedKeptOwnClosed ==
    /\ "supplied" \in u_open
    /\ u_op # "none" =>
          /\ u_used = (IF u_supplied THEN "supplied" ELSE "own")
          /\ u_opened = (IF u_supplied THEN 0 ELSE 1)
    /\ u_pc # "idle" =>
          /\ u_used \in u_open
          /\ u_closed = 0
    /\ u_pc = "idle" =>
          /\ u_open = {"supplied"}
          /\ u_closed = u_opened

\* A second operation, called without a client, raised and left its client closed.
C30_Witness ==
    /\ u_ops = 2
    /\ u_pc = "idle"
    /\ ~u_supplied
    /\ u_result = "raised"
    /\ u_opened = 1
    /\ u_closed = 1

====
